---- MODULE Spec2Model ----
(***************************************************************************)
(* Model of the pomodoro timer component App (src/src/App.tsx): the React   *)
(* state of the component, the lastUpdateRef ref, the localStorage item     *)
(* 'timerState', the wall clock read by Date.now(), and one action per      *)
(* effect or handler of the component.                                      *)
(***************************************************************************)
EXTENDS Integers, FiniteSets, Sequences, TLC

VARIABLES
    pc,              \* "constructed" (first render done, effects pending),
                     \* "mounted" (effects ran), "crashed" (uncaught error, tree unmounted)
    selectedPreset,  \* useState, line 16
    mode,            \* useState, line 17
    remainingTime,   \* useState, line 18
    isRunning,       \* useState, line 19
    lastUpdateRef,   \* useRef, line 23 (lastUpdateRef.current)
    stored,          \* localStorage item 'timerState'
    now,             \* the wall clock, in milliseconds (Date.now())
    advances,        \* how many times the clock has advanced
    signalCount,     \* how many times notifyCompletion was called
    signalTag,       \* the argument of the latest notifyCompletion call
    op,              \* the operation that produced this state, and its argument
    pre,             \* the component's state and ref before that operation
    loaded,          \* the localStorage item the latest restore effect read
    signalled,       \* whether that operation called notifyCompletion
    resumed,         \* observer of a pause, the wait after it, the start that
                     \* follows and the first tick after that start
    session          \* observer of a start and the phase's countdown since

vars == <<pc, selectedPreset, mode, remainingTime, isRunning, lastUpdateRef,
          stored, now, advances, signalCount, signalTag, op, pre, loaded,
          signalled, resumed, session>>

engine == <<selectedPreset, mode, remainingTime, isRunning, lastUpdateRef>>

\* the component's state and ref as a record
Current ==
    [selectedPreset |-> selectedPreset, mode |-> mode,
     remainingTime |-> remainingTime, isRunning |-> isRunning,
     lastUpdate |-> lastUpdateRef]

NoItem == [kind |-> "none"]

Op(name, arg) == [name |-> name, arg |-> arg]

\* the observer's value when the phase has not run on since a start
NoSession == [on |-> FALSE, s |-> 0, r |-> 0]

\* the observer's value outside a pause-wait-start-tick sequence
Untracked == [phase |-> "none", r |-> 0, waited |-> FALSE, s |-> 0]

----------------------------------------------------------------------------
(* Bounds of the model *)

\* the clock advances at most this many times in a behaviour
MaxAdvances == 3

\* the amounts (ms) by which the clock advances between two events:
\* less than a second, one second, a few seconds, more than the short
\* preset's focus phase, exactly the focus phase of the second preset
Steps == {400, 1000, 4600, 21000, 3000000}

\* the amounts (ms) by which a wall clock that can be set back moves
\* between two events
SkewSteps == {-1400, -400, 400, 21000}

\* the amounts (ms) by which the clock moves between two interval
\* callbacks of a timer that is left running
LiveSteps == {400, 1000, 4600, 21000}

\* in a behaviour that never ends, notifyCompletion calls are counted
\* modulo this number
SignalModulus == 2

\* the instant of the first page load (Date.now() is positive)
StartInstants == {250}

----------------------------------------------------------------------------
(* Program constants *)

\* the divisor of lines 42 and 68
MsPerSec == 1000

\* const presets, lines 9-13
presets ==
    (0 :> [focus |-> 20, break |-> 5]) @@
    (1 :> [focus |-> 50 * 60, break |-> 10 * 60]) @@
    (2 :> [focus |-> 90 * 60, break |-> 15 * 60])

\* presets[i] is undefined outside these indices
PresetIndices == DOMAIN presets

----------------------------------------------------------------------------
(* Pure helpers *)

\* mutant: the elapsed time is taken as a distance, whichever way the
\* clock moved
DeltaSecsMagnitude(t, last) ==
    (IF t >= last THEN t - last ELSE last - t) \div MsPerSec

\* Math.floor((t - last) / 1000), lines 42 and 68
DeltaSecs(t, last) == (t - last) \div MsPerSec

\* mutant: the duration of the focus phase whatever the mode
DurationOfFocus(m, p) == presets[p].focus

\* the duration the code picks for a mode under a preset: the focus
\* duration when mode === 'focus', the break duration otherwise
Duration(m, p) == IF m = "focus" THEN presets[p].focus ELSE presets[p].break

\* the mode a completed phase hands over to (setMode of lines 75-81)
NextMode(m) == IF m = "focus" THEN "break" ELSE "focus"

\* mutant: the overshoot beyond zero is carried into the next phase
TickRemainingCarry(prev, deltaSecs, m, p) ==
    IF prev - deltaSecs <= 0
    THEN Duration(NextMode(m), p) + (prev - deltaSecs)
    ELSE prev - deltaSecs

\* mutant: an exact zero does not end the phase
TickRemainingStrict(prev, deltaSecs, m, p) ==
    IF prev - deltaSecs < 0 THEN Duration(NextMode(m), p) ELSE prev - deltaSecs

\* mutant: one second per tick, whatever the wall clock says
TickRemainingFixedStep(prev, deltaSecs, m, p) ==
    IF prev - deltaSecs <= 0 THEN Duration(NextMode(m), p) ELSE prev - 1

\* the updater of setRemainingTime in the interval callback, lines 70-84
TickRemaining(prev, deltaSecs, m, p) ==
    IF prev - deltaSecs <= 0 THEN Duration(NextMode(m), p) ELSE prev - deltaSecs

\* whether that updater takes the completion branch, line 72
TickCompletes(prev, deltaSecs) == prev - deltaSecs <= 0

\* mutant: the completion branch leaves the mode as it is
TickModeStuck(prev, deltaSecs, m) == m

\* the mode after the updater ran, lines 72-82
TickMode(prev, deltaSecs, m) ==
    IF TickCompletes(prev, deltaSecs) THEN NextMode(m) ELSE m

\* mutant: no clamp at 0
RestoreRemainingUnclamped(prev, delta) == prev - delta

\* the updater of setRemainingTime in the restore effect, line 43
RestoreRemaining(prev, delta) == IF prev - delta > 0 THEN prev - delta ELSE 0

\* mutant: the snapshot never records a running timer
SerializeNoRunning(sp, m, r, run, lu) ==
    [kind |-> "json",
     obj  |-> [selectedPreset |-> sp, mode |-> m, remainingTime |-> r,
               isRunning |-> FALSE, lastUpdate |-> lu]]

\* JSON.stringify of the object of lines 53-59
Serialize(sp, m, r, run, lu) ==
    [kind |-> "json",
     obj  |-> [selectedPreset |-> sp, mode |-> m, remainingTime |-> r,
               isRunning |-> run, lastUpdate |-> lu]]

\* if (savedState), line 28: null and the empty string are falsy
HasSavedState(item) == item.kind \notin {"null", "empty"}

\* JSON.parse(savedState) throws a SyntaxError on text that is not JSON
ParseThrows(item) == item.kind = "garbage"

\* if (lastUpdate), line 40: a missing field destructures to undefined,
\* and undefined and 0 are falsy
HasLastUpdate(o) == "lastUpdate" \in DOMAIN o /\ o.lastUpdate # 0

\* presets[selectedPreset].focus of lines 18 and 133 throws a TypeError
\* when presets[selectedPreset] is undefined
RenderThrows(sp) == sp \notin PresetIndices

\* Number(e.target.value), line 120, on the decimal strings a select
\* element can carry
NumberOf(v) ==
    CASE v = "0" -> 0 [] v = "1" -> 1 [] v = "2" -> 2
      [] v = "3" -> 3 [] v = "-1" -> 0 - 1

\* the values handlePresetChange is called with: the three options of the
\* select element (lines 168-170) and two values outside the catalog
SelectValues == {"0", "1", "2", "3", "-1"}

\* the items the first page load may find under 'timerState': nothing,
\* text that is not JSON, a snapshot whose preset index is outside the
\* catalog, and a snapshot without the lastUpdate field
MalformedItems ==
    { [kind |-> "null"],
      [kind |-> "garbage"],
      Serialize(7, "break", 30, TRUE, 100),
      [kind |-> "json",
       obj  |-> [selectedPreset |-> 1, mode |-> "break",
                 remainingTime |-> 30, isRunning |-> FALSE]] }

----------------------------------------------------------------------------
(* Initial state: the state after the first render, lines 16-23 *)

Init ==
    /\ pc = "constructed"
    /\ selectedPreset = 0
    /\ mode = "focus"
    /\ remainingTime = presets[0].focus
    /\ isRunning = FALSE
    /\ now \in StartInstants
    /\ lastUpdateRef = now
    /\ stored \in MalformedItems
    /\ advances = 0
    /\ signalCount = 0
    /\ signalTag = "none"
    /\ op = Op("construct", 0)
    /\ resumed = Untracked
    /\ session = NoSession
    /\ pre = Current
    /\ loaded = NoItem
    /\ signalled = FALSE

----------------------------------------------------------------------------
(* Effects and handlers *)

\* mutant: the save effect writes the lastUpdateRef.current of the
\* render before
SaveEffectStaleRef(sp, m, r, run, lu) ==
    stored' = IF <<sp, m, r, run>> # <<selectedPreset, mode, remainingTime, isRunning>>
              THEN Serialize(sp, m, r, run, lastUpdateRef)
              ELSE stored

\* the save effect, lines 50-61: it runs after a render in which one of
\* its four dependencies changed, and reads lastUpdateRef.current then
SaveEffect(sp, m, r, run, lu) ==
    stored' = IF <<sp, m, r, run>> # <<selectedPreset, mode, remainingTime, isRunning>>
              THEN Serialize(sp, m, r, run, lu)
              ELSE stored

\* a handler's state updates followed by the render and the save effect
Commit(sp, m, r, run, lu) ==
    /\ selectedPreset' = sp
    /\ mode' = m
    /\ remainingTime' = r
    /\ isRunning' = run
    /\ lastUpdateRef' = lu
    /\ SaveEffect(sp, m, r, run, lu)

\* the wall clock moves on between two events; the effects of the first
\* commit run right after the first render, with no time in between
Advance(d) ==
    /\ pc # "constructed"
    /\ advances < MaxAdvances
    /\ now' = now + d
    /\ advances' = advances + 1
    /\ resumed' = IF resumed.phase = "paused"
                  THEN [resumed EXCEPT !.waited = @ \/ d >= MsPerSec]
                  ELSE IF resumed.phase = "started" THEN resumed ELSE Untracked
    /\ op' = Op("advance", 0)
    /\ pre' = Current
    /\ signalled' = FALSE
    /\ loaded' = NoItem
    /\ session' = session
    /\ UNCHANGED <<pc, engine, stored, signalCount, signalTag>>

\* the restore effect's result for a parsed snapshot o at instant t, lines 29-45
RestoredRemaining(o, t) ==
    IF HasLastUpdate(o)
    THEN RestoreRemaining(o.remainingTime, DeltaSecs(t, o.lastUpdate))
    ELSE o.remainingTime

RestoredRef(o, t) == IF HasLastUpdate(o) THEN t ELSE lastUpdateRef

\* the effects of the first commit, lines 26-61: the restore effect, then
\* the save effect with the values of the first render, then the render
\* of the restored state and its save effect
Mount ==
    /\ pc = "constructed"
    /\ op' = Op("mount", 0)
    /\ resumed' = Untracked
    /\ pre' = Current
    /\ loaded' = stored
    /\ session' = NoSession
    /\ signalled' = FALSE
    /\ UNCHANGED <<now, advances, signalCount, signalTag>>
    /\ IF ~HasSavedState(stored)
       THEN /\ pc' = "mounted"
            /\ UNCHANGED engine
            /\ stored' = Serialize(selectedPreset, mode, remainingTime,
                                   isRunning, lastUpdateRef)
       ELSE IF ParseThrows(stored)
       THEN \* the restore effect throws; whether the effects after it
            \* still run depends on the React version
            /\ pc' = "crashed"
            /\ UNCHANGED engine
            /\ stored' \in {stored,
                            Serialize(selectedPreset, mode, remainingTime,
                                      isRunning, lastUpdateRef)}
       ELSE LET o   == stored.obj
                ref == RestoredRef(o, now)
                r   == RestoredRemaining(o, now)
                first == Serialize(selectedPreset, mode, remainingTime,
                                   isRunning, ref)
            IN  /\ selectedPreset' = o.selectedPreset
                /\ mode' = o.mode
                /\ remainingTime' = r
                /\ isRunning' = o.isRunning
                /\ lastUpdateRef' = ref
                /\ IF RenderThrows(o.selectedPreset)
                   THEN /\ pc' = "crashed"
                        /\ stored' = first
                   ELSE /\ pc' = "mounted"
                        /\ stored' =
                             IF <<o.selectedPreset, o.mode, r, o.isRunning>>
                                  # <<selectedPreset, mode, remainingTime, isRunning>>
                             THEN Serialize(o.selectedPreset, o.mode, r,
                                            o.isRunning, ref)
                             ELSE first

\* the page is loaded again: a new component instance, lines 16-23
Reload ==
    /\ pc \in {"mounted", "crashed"}
    /\ pc' = "constructed"
    /\ selectedPreset' = 0
    /\ mode' = "focus"
    /\ remainingTime' = presets[0].focus
    /\ isRunning' = FALSE
    /\ lastUpdateRef' = now
    /\ op' = Op("reload", 0)
    /\ resumed' = Untracked
    /\ pre' = Current
    /\ signalled' = FALSE
    /\ loaded' = NoItem
    /\ session' = NoSession
    /\ UNCHANGED <<stored, now, advances, signalCount, signalTag>>

\* mutant: the timer stops at the end of a phase and waits for a start
TickCountingStops(count) ==
    /\ pc = "mounted"
    /\ isRunning
    /\ op' = Op("tick", 0)
    /\ resumed' = IF resumed.phase = "started"
                  THEN IF DeltaSecs(now, lastUpdateRef) > 0
                       THEN [resumed EXCEPT !.phase = "ticked"]
                       ELSE resumed
                  ELSE IF resumed.phase = "paused" THEN resumed ELSE Untracked
    /\ pre' = Current
    /\ loaded' = NoItem
    /\ session' = IF /\ DeltaSecs(now, lastUpdateRef) > 0
                     /\ TickCompletes(remainingTime, DeltaSecs(now, lastUpdateRef))
                  THEN NoSession ELSE session
    /\ UNCHANGED <<pc, now, advances>>
    /\ LET deltaSecs == DeltaSecs(now, lastUpdateRef)
       IN  IF deltaSecs > 0
           THEN /\ Commit(selectedPreset,
                          TickMode(remainingTime, deltaSecs, mode),
                          TickRemaining(remainingTime, deltaSecs, mode, selectedPreset),
                          ~TickCompletes(remainingTime, deltaSecs),
                          now)
                /\ IF TickCompletes(remainingTime, deltaSecs)
                   THEN \* notifyCompletion(mode), line 74
                        /\ signalCount' = count
                        /\ signalTag' = mode
                        /\ signalled' = TRUE
                   ELSE /\ signalled' = FALSE
                        /\ UNCHANGED <<signalCount, signalTag>>
           ELSE /\ signalled' = FALSE
                /\ UNCHANGED <<engine, stored, signalCount, signalTag>>

\* the interval callback, lines 66-87; the interval exists while
\* isRunning is true (lines 65 and 88)
\* count is the number of notifyCompletion calls after one more call
TickCounting(count) ==
    /\ pc = "mounted"
    /\ isRunning
    /\ op' = Op("tick", 0)
    /\ resumed' = IF resumed.phase = "started"
                  THEN IF DeltaSecs(now, lastUpdateRef) > 0
                       THEN [resumed EXCEPT !.phase = "ticked"]
                       ELSE resumed
                  ELSE IF resumed.phase = "paused" THEN resumed ELSE Untracked
    /\ pre' = Current
    /\ loaded' = NoItem
    /\ session' = IF /\ DeltaSecs(now, lastUpdateRef) > 0
                     /\ TickCompletes(remainingTime, DeltaSecs(now, lastUpdateRef))
                  THEN NoSession ELSE session
    /\ UNCHANGED <<pc, now, advances>>
    /\ LET deltaSecs == DeltaSecs(now, lastUpdateRef)
       IN  IF deltaSecs > 0
           THEN /\ Commit(selectedPreset,
                          TickMode(remainingTime, deltaSecs, mode),
                          TickRemaining(remainingTime, deltaSecs, mode, selectedPreset),
                          isRunning,
                          now)
                /\ IF TickCompletes(remainingTime, deltaSecs)
                   THEN \* notifyCompletion(mode), line 74
                        /\ signalCount' = count
                        /\ signalTag' = mode
                        /\ signalled' = TRUE
                   ELSE /\ signalled' = FALSE
                        /\ UNCHANGED <<signalCount, signalTag>>
           ELSE /\ signalled' = FALSE
                /\ UNCHANGED <<engine, stored, signalCount, signalTag>>

Tick == TickCounting(signalCount + 1)

\* mutant: start lacks the guard of line 100
handleStartUnguarded ==
    /\ pc = "mounted"
    /\ op' = Op("start", 0)
    /\ resumed' = IF resumed.phase = "paused"
                  THEN [resumed EXCEPT !.phase = "started", !.s = now]
                  ELSE IF resumed.phase = "started" THEN resumed ELSE Untracked
    /\ pre' = Current
    /\ signalled' = FALSE
    /\ loaded' = NoItem
    /\ session' = IF isRunning THEN session
                  ELSE [on |-> TRUE, s |-> now, r |-> remainingTime]
    /\ UNCHANGED <<pc, now, advances, signalCount, signalTag>>
    /\ selectedPreset' = selectedPreset
    /\ mode' = mode
    /\ remainingTime' = remainingTime
    /\ isRunning' = TRUE
    /\ lastUpdateRef' = now
    /\ SaveEffect(selectedPreset, mode, remainingTime, TRUE, now)

\* mutant: start does not refresh lastUpdateRef.current
handleStartStale ==
    /\ pc = "mounted"
    /\ op' = Op("start", 0)
    /\ resumed' = IF resumed.phase = "paused"
                  THEN [resumed EXCEPT !.phase = "started", !.s = now]
                  ELSE IF resumed.phase = "started" THEN resumed ELSE Untracked
    /\ pre' = Current
    /\ signalled' = FALSE
    /\ loaded' = NoItem
    /\ session' = IF isRunning THEN session
                  ELSE [on |-> TRUE, s |-> now, r |-> remainingTime]
    /\ UNCHANGED <<pc, now, advances, signalCount, signalTag>>
    /\ IF ~isRunning
       THEN Commit(selectedPreset, mode, remainingTime, TRUE, lastUpdateRef)
       ELSE UNCHANGED <<engine, stored>>

\* lines 99-104
handleStart ==
    /\ pc = "mounted"
    /\ op' = Op("start", 0)
    /\ resumed' = IF resumed.phase = "paused"
                  THEN [resumed EXCEPT !.phase = "started", !.s = now]
                  ELSE IF resumed.phase = "started" THEN resumed ELSE Untracked
    /\ pre' = Current
    /\ signalled' = FALSE
    /\ loaded' = NoItem
    /\ session' = IF isRunning THEN session
                  ELSE [on |-> TRUE, s |-> now, r |-> remainingTime]
    /\ UNCHANGED <<pc, now, advances, signalCount, signalTag>>
    /\ IF ~isRunning
       THEN Commit(selectedPreset, mode, remainingTime, TRUE, now)
       ELSE UNCHANGED <<engine, stored>>

\* lines 106-108
handlePause ==
    /\ pc = "mounted"
    /\ op' = Op("pause", 0)
    /\ resumed' = IF resumed.phase = "paused"
                  THEN resumed
                  ELSE [phase |-> "paused", r |-> remainingTime,
                        waited |-> FALSE, s |-> 0]
    /\ pre' = Current
    /\ signalled' = FALSE
    /\ loaded' = NoItem
    /\ session' = NoSession
    /\ UNCHANGED <<pc, now, advances, signalCount, signalTag>>
    /\ Commit(selectedPreset, mode, remainingTime, FALSE, lastUpdateRef)

\* mutant: reset goes back to the focus phase
handleResetToFocus ==
    /\ pc = "mounted"
    /\ op' = Op("reset", 0)
    /\ resumed' = Untracked
    /\ pre' = Current
    /\ signalled' = FALSE
    /\ loaded' = NoItem
    /\ session' = NoSession
    /\ UNCHANGED <<pc, now, advances, signalCount, signalTag>>
    /\ Commit(selectedPreset, "focus", Duration("focus", selectedPreset), FALSE,
              lastUpdateRef)

\* lines 110-117
handleReset ==
    /\ pc = "mounted"
    /\ op' = Op("reset", 0)
    /\ resumed' = Untracked
    /\ pre' = Current
    /\ signalled' = FALSE
    /\ loaded' = NoItem
    /\ session' = NoSession
    /\ UNCHANGED <<pc, now, advances, signalCount, signalTag>>
    /\ Commit(selectedPreset, mode, Duration(mode, selectedPreset), FALSE,
              lastUpdateRef)

\* mutant: the preset change leaves isRunning as it is
handlePresetChangeKeepsRunning(v) ==
    /\ pc = "mounted"
    /\ op' = Op("preset", NumberOf(v))
    /\ resumed' = Untracked
    /\ pre' = Current
    /\ signalled' = FALSE
    /\ loaded' = NoItem
    /\ session' = NoSession
    /\ UNCHANGED <<now, advances, signalCount, signalTag>>
    /\ LET presetIndex == NumberOf(v)
       IN  IF presetIndex \in PresetIndices
           THEN /\ pc' = "mounted"
                /\ Commit(presetIndex, mode, Duration(mode, presetIndex),
                          isRunning, lastUpdateRef)
           ELSE /\ pc' = "crashed"
                /\ selectedPreset' = presetIndex
                /\ UNCHANGED <<mode, remainingTime, isRunning, lastUpdateRef, stored>>

\* lines 119-128
handlePresetChange(v) ==
    /\ pc = "mounted"
    /\ op' = Op("preset", NumberOf(v))
    /\ resumed' = Untracked
    /\ pre' = Current
    /\ signalled' = FALSE
    /\ loaded' = NoItem
    /\ session' = NoSession
    /\ UNCHANGED <<now, advances, signalCount, signalTag>>
    /\ LET presetIndex == NumberOf(v)
       IN  IF presetIndex \in PresetIndices
           THEN /\ pc' = "mounted"
                /\ Commit(presetIndex, mode, Duration(mode, presetIndex),
                          FALSE, lastUpdateRef)
           ELSE \* setSelectedPreset ran, line 123 or 125 throws, and the
                \* render of the new index throws at line 18
                /\ pc' = "crashed"
                /\ selectedPreset' = presetIndex
                /\ UNCHANGED <<mode, remainingTime, isRunning, lastUpdateRef, stored>>

Next ==
    \/ Mount
    \/ handleStart
    \/ handlePause
    \/ handleReset
    \/ \E v \in SelectValues : handlePresetChange(v)
    \/ Tick
    \/ \E d \in Steps : Advance(d)
    \/ Reload

Spec == Init /\ [][Next]_vars

\* the same component under a wall clock that can also be set back
\* (Date.now() follows the system clock, lines 67 and 101); it stays positive
NextSkew ==
    \/ Mount
    \/ handleStart
    \/ handlePause
    \/ handleReset
    \/ \E v \in SelectValues : handlePresetChange(v)
    \/ Tick
    \/ \E d \in SkewSteps : now + d > 0 /\ Advance(d)
    \/ Reload

SpecSkew == Init /\ [][NextSkew]_vars

\* the select element's own option values, lines 167-171
OptionValues == {v \in SelectValues : NumberOf(v) \in PresetIndices}

\* a first page load with nothing stored
InitFresh == Init /\ stored = [kind |-> "null"]

\* the component from a first page load on, never reloaded, its select
\* element offering its own options only
NextNoRestore ==
    \/ Mount
    \/ handleStart
    \/ handlePause
    \/ handleReset
    \/ \E v \in OptionValues : handlePresetChange(v)
    \/ Tick
    \/ \E d \in Steps : Advance(d)

SpecNoRestore == InitFresh /\ [][NextNoRestore]_vars

\* the interval callback, with notifyCompletion calls counted modulo
\* SignalModulus
TickLive == TickCounting((signalCount + 1) % SignalModulus)

\* a stored item as seen d ms later, instants being measured from now
Receded(item, d) ==
    IF item.kind = "json" /\ "lastUpdate" \in DOMAIN item.obj
    THEN [item EXCEPT !.obj.lastUpdate = @ - d]
    ELSE item

\* d ms pass while the timer runs, at most a second and one step without
\* an interval callback (setInterval(..., 1000), line 86). Instants are
\* measured from now, which lines 42 and 68 allow as they use only the
\* difference now - lastUpdate: every instant held recedes by d.
LiveAdvance(d) ==
    /\ pc = "mounted"
    /\ isRunning
    /\ DeltaSecs(now, lastUpdateRef) = 0
    /\ lastUpdateRef' = lastUpdateRef - d
    /\ stored' = Receded(stored, d)
    /\ pre' = [Current EXCEPT !.lastUpdate = @ - d]
    /\ op' = Op("advance", 0)
    /\ resumed' = Untracked
    /\ signalled' = FALSE
    /\ loaded' = NoItem
    /\ session' = NoSession
    /\ UNCHANGED <<pc, now, advances, selectedPreset, mode, remainingTime,
                   isRunning, signalCount, signalTag>>

\* the component from a first page load on: the timer is started on the
\* preset it comes up with and then left alone, nobody pauses, resets,
\* changes the preset or reloads
NextLive ==
    \/ Mount
    \/ handleStart
    \/ TickLive
    \/ \E d \in LiveSteps : LiveAdvance(d)

\* the browser keeps calling the interval callback and the clock keeps
\* moving
SpecLive ==
    /\ InitFresh
    /\ [][NextLive]_vars
    /\ WF_vars(TickLive)
    /\ WF_vars(\E d \in LiveSteps : LiveAdvance(d))

----------------------------------------------------------------------------
(* Vocabulary of the claims, stated apart from the model's operators *)

\* whole seconds between lastObservedInstant and now
ElapsedSeconds == (now - lastUpdateRef) \div MsPerSec

\* duration(phase, preset) of the specification
FullDuration(ph, i) == IF ph = "focus" THEN presets[i].focus ELSE presets[i].break

Opposite(ph) == IF ph = "focus" THEN "break" ELSE "focus"

\* a tick step taken while the engine runs
LiveTick == op'.name = "tick" /\ pc = "mounted" /\ isRunning

\* whole seconds the latest operation saw between the instant it found
\* and now
SeenSeconds == (now - pre.lastUpdate) \div MsPerSec

\* the effect of a phase transition on the engine's fields
Transitioned ==
    /\ mode' = Opposite(mode)
    /\ remainingTime' = FullDuration(Opposite(mode), selectedPreset)
    /\ selectedPreset' = selectedPreset
    /\ isRunning' = TRUE
    /\ lastUpdateRef' = now

----------------------------------------------------------------------------
(* C1 *)

\* C1 as stated: a tick that arrives while running with the whole seconds
\* elapsed since lastObservedInstant >= remainingSeconds flips the phase,
\* sets remainingSeconds to the full duration of the new phase under the
\* selected preset, keeps running true and sets lastObservedInstant to now.
C1_Original ==
    [][(LiveTick /\ ElapsedSeconds >= remainingTime) => Transitioned]_vars

\* C1 amended: the same, for a tick that sees at least one whole second
\* elapsed (a tick with zero whole seconds elapsed is a no-op even when
\* remainingSeconds is 0).
C1_TickTransition ==
    [][(LiveTick /\ ElapsedSeconds > 0 /\ ElapsedSeconds >= remainingTime)
          => Transitioned]_vars

\* a tick has just ended a focus phase of the second preset with an
\* overshoot, and the break phase starts at its full duration
C1_Witness ==
    /\ op.name = "tick"
    /\ signalled
    /\ pre.isRunning
    /\ SeenSeconds > pre.remainingTime
    /\ selectedPreset = 1
    /\ pre.mode = "focus"
    /\ mode = "break"
    /\ remainingTime = presets[1].break
    /\ isRunning
    /\ lastUpdateRef = now

----------------------------------------------------------------------------
(* C2 *)

\* C2: restoring a snapshot whose running flag is false, at any later
\* instant, yields the snapshot's remainingSeconds: no elapsed wall-clock
\* time is subtracted from a paused or never-started timer.
C2_PausedRestoreKeepsRemaining ==
    [][(/\ op'.name = "mount"
        /\ stored.kind = "json"
        /\ stored.obj.selectedPreset \in PresetIndices
        /\ stored.obj.isRunning = FALSE)
          => remainingTime' = stored.obj.remainingTime]_vars

----------------------------------------------------------------------------
(* C3 *)

\* C3: while running, a tick that sees D whole seconds elapsed with
\* 0 < D < remainingSeconds reduces remainingSeconds by exactly D, sets
\* lastObservedInstant to now, leaves phase, selectedPresetIndex and
\* running unchanged and fires no completion signal.
C3_DriftCorrect ==
    [][(LiveTick /\ 0 < ElapsedSeconds /\ ElapsedSeconds < remainingTime)
          => /\ remainingTime' = remainingTime - ElapsedSeconds
             /\ lastUpdateRef' = now
             /\ mode' = mode
             /\ selectedPreset' = selectedPreset
             /\ isRunning' = isRunning
             /\ signalCount' = signalCount]_vars

\* a single tick has just covered a gap of several seconds
C3_Witness ==
    /\ op.name = "tick"
    /\ pre.isRunning
    /\ SeenSeconds >= 4
    /\ SeenSeconds < pre.remainingTime
    /\ remainingTime = pre.remainingTime - SeenSeconds
    /\ ~signalled

----------------------------------------------------------------------------
(* C4 *)

\* a snapshot the engine can have written, found by the restore effect
RestoresSnapshot ==
    /\ op'.name = "mount"
    /\ stored.kind = "json"
    /\ stored.obj.selectedPreset \in PresetIndices
    /\ "lastUpdate" \in DOMAIN stored.obj
    /\ stored.obj.lastUpdate > 0

\* C4: restoring a snapshot with running=true whose gap in whole seconds
\* is >= its remainingSeconds yields remainingSeconds=0, running=true and
\* the snapshot's phase without a completion signal; the next live tick
\* with a positive delta then fires exactly one phase transition, to the
\* opposite phase with its full duration.
C4_RestoreDefersSignal ==
    [][/\ (/\ RestoresSnapshot
           /\ stored.obj.isRunning
           /\ (now - stored.obj.lastUpdate) \div MsPerSec >= stored.obj.remainingTime)
          => /\ pc' = "mounted"
             /\ remainingTime' = 0
             /\ isRunning' = TRUE
             /\ mode' = stored.obj.mode
             /\ signalCount' = signalCount
       /\ (LiveTick /\ remainingTime = 0 /\ ElapsedSeconds > 0)
          => /\ Transitioned
             /\ signalCount' = signalCount + 1
             /\ signalTag' = mode]_vars

\* the first live tick after a restore that clamped to 0 has just fired
\* the one deferred transition
C4_Witness ==
    /\ op.name = "tick"
    /\ pre.remainingTime = 0
    /\ pre.isRunning
    /\ signalled
    /\ signalCount = 1
    /\ mode = Opposite(pre.mode)
    /\ remainingTime = FullDuration(mode, selectedPreset)

----------------------------------------------------------------------------
(* C5 *)

\* C5: a completion signal fires exactly once per phase transition, tagged
\* with the phase that just ended: every signal comes from a tick that
\* flips the phase and carries the phase held before the flip, every
\* flip by a tick raises one signal, and start, pause, reset,
\* changePreset, restore and a non-transitioning tick raise none.
C5_SignalPerTransition ==
    [][/\ (signalCount' # signalCount)
          => /\ LiveTick
             /\ signalCount' = signalCount + 1
             /\ mode' = Opposite(mode)
             /\ signalTag' = mode
       /\ (op'.name = "tick" /\ mode' # mode) => signalCount' = signalCount + 1
       /\ (op'.name = "tick" /\ mode' = mode) => signalCount' = signalCount]_vars

\* the second transition of a run has just been signalled, tagged break
C5_Witness ==
    /\ op.name = "tick"
    /\ signalled
    /\ signalCount = 2
    /\ signalTag = "break"
    /\ pre.mode = "break"
    /\ mode = "focus"

----------------------------------------------------------------------------
(* C6 *)

\* C6: changePreset(index) with an index outside the catalog is rejected
\* and leaves selectedPresetIndex, phase, remainingSeconds, running and
\* lastObservedInstant unchanged, the engine staying in service.
C6_InvalidIndexRejected ==
    [][(op'.name = "preset" /\ op'.arg \notin PresetIndices)
          => (engine' = engine /\ pc' = "mounted")]_vars

----------------------------------------------------------------------------
(* C7 *)

SnapshotFields ==
    {"selectedPreset", "mode", "remainingTime", "isRunning", "lastUpdate"}

\* an absent, unparseable or field-invalid stored value
Malformed(item) ==
    \/ item.kind \in {"null", "garbage"}
    \/ /\ item.kind = "json"
       /\ \/ DOMAIN item.obj # SnapshotFields
          \/ item.obj.selectedPreset \notin PresetIndices

\* C7: initialization with an absent, unparseable or field-invalid stored
\* value never fails and yields the initial state, FocusPaused with
\* selectedPresetIndex=0 and remainingSeconds = presets[0].focusSeconds.
C7_MalformedIsNoPriorState ==
    [][(op'.name = "mount" /\ Malformed(stored))
          => /\ pc' = "mounted"
             /\ selectedPreset' = 0
             /\ mode' = "focus"
             /\ remainingTime' = presets[0].focus
             /\ isRunning' = FALSE]_vars

----------------------------------------------------------------------------
(* C8 *)

\* C8: changePreset(i) with a valid index, in any state, sets
\* selectedPresetIndex=i, running=false and remainingSeconds to the
\* duration of the current phase under preset i, and leaves phase
\* unchanged.
C8_PresetChangeStopsClock ==
    [][(op'.name = "preset" /\ op'.arg \in PresetIndices)
          => /\ selectedPreset' = op'.arg
             /\ isRunning' = FALSE
             /\ remainingTime' = FullDuration(mode, op'.arg)
             /\ mode' = mode]_vars

\* a running break countdown has just been moved to the third preset
C8_Witness ==
    /\ op = Op("preset", 2)
    /\ pre.isRunning
    /\ pre.mode = "break"
    /\ pre.selectedPreset = 0
    /\ selectedPreset = 2
    /\ mode = "break"
    /\ remainingTime = presets[2].break
    /\ ~isRunning

----------------------------------------------------------------------------
(* C9 *)

\* C9: reset() in any state sets running=false and remainingSeconds to
\* the full duration of the active phase under the selected preset
\* (breakSeconds when phase=Break, focusSeconds when phase=Focus), and
\* leaves phase and selectedPresetIndex unchanged.
C9_ResetPreservesPhase ==
    [][(op'.name = "reset")
          => /\ isRunning' = FALSE
             /\ remainingTime' = FullDuration(mode, selectedPreset)
             /\ mode' = mode
             /\ selectedPreset' = selectedPreset]_vars

\* a running, partly elapsed break phase has just been reset
C9_Witness ==
    /\ op.name = "reset"
    /\ signalCount = 1
    /\ selectedPreset = 0
    /\ pre.isRunning
    /\ pre.mode = "break"
    /\ pre.remainingTime < presets[selectedPreset].break
    /\ mode = "break"
    /\ remainingTime = presets[selectedPreset].break
    /\ ~isRunning

----------------------------------------------------------------------------
(* C10 *)

\* whole seconds between the start that ended the pause and now
SinceStart == (now - resumed.s) \div MsPerSec

\* C10: after pause() with remainingSeconds=r, r stays unchanged for any
\* amount of elapsed wall-clock time; start() at instant s sets
\* lastObservedInstant to s, and the tick D whole seconds after s (D < r)
\* yields remainingSeconds = r - D.
C10_PausedTimeNotCounted ==
    /\ resumed.phase = "paused"
          => (isRunning = FALSE /\ remainingTime = resumed.r)
    /\ resumed.phase = "started"
          => (isRunning /\ remainingTime = resumed.r /\ lastUpdateRef = resumed.s)
    /\ (resumed.phase = "ticked" /\ SinceStart < resumed.r)
          => remainingTime = resumed.r - SinceStart

\* a countdown paused midway, left paused for a second or more, started
\* again and ticked after some whole seconds
C10_Witness ==
    /\ resumed.phase = "ticked"
    /\ resumed.waited
    /\ resumed.r < FullDuration(mode, selectedPreset)
    /\ SinceStart > 0
    /\ SinceStart < resumed.r
    /\ remainingTime = resumed.r - SinceStart

----------------------------------------------------------------------------
(* C11 *)

\* C11: pause() on a paused engine and start() on a running engine change
\* nothing, so pause();pause() equals pause() and start();start() equals
\* start(); in particular a start() issued while running does not move
\* lastObservedInstant forward.
C11_IdempotentPauseStart ==
    [][/\ (op'.name = "pause" /\ isRunning = FALSE)
          => (engine' = engine /\ stored' = stored)
       /\ (op'.name = "start" /\ isRunning)
          => (engine' = engine /\ stored' = stored)
       /\ (op'.name = "pause") => isRunning' = FALSE
       /\ (op'.name = "start") => isRunning' = TRUE]_vars

\* start() has just been issued on an engine that had been running for
\* a second or more, and lastObservedInstant stayed where it was
C11_Witness ==
    /\ op.name = "start"
    /\ pre.isRunning
    /\ isRunning
    /\ lastUpdateRef = pre.lastUpdate
    /\ now - lastUpdateRef >= MsPerSec

----------------------------------------------------------------------------
(* C12 *)

\* C12: while the engine is in service, the snapshot held by the
\* persistence adapter equals the current EngineState in all five fields,
\* lastObservedInstant included, after every operation.
C12_SnapshotIsCurrent ==
    pc = "mounted"
       => /\ stored.kind = "json"
          /\ stored.obj = [selectedPreset |-> selectedPreset,
                           mode |-> mode,
                           remainingTime |-> remainingTime,
                           isRunning |-> isRunning,
                           lastUpdate |-> lastUpdateRef]

\* a tick has just decremented the countdown, later than the first page
\* load, and the snapshot carries the new remainder and the new instant
C12_Witness ==
    /\ op.name = "tick"
    /\ remainingTime < pre.remainingTime
    /\ lastUpdateRef > pre.lastUpdate
    /\ stored.kind = "json"
    /\ stored.obj.remainingTime = remainingTime
    /\ stored.obj.lastUpdate = now

----------------------------------------------------------------------------
(* C13 *)

\* restore(serialize(s), t) for t = s.lastObservedInstant
RoundTrip(s) ==
    LET o == Serialize(s.selectedPreset, s.mode, s.remainingTime,
                       s.isRunning, s.lastUpdate).obj
    IN  [selectedPreset |-> o.selectedPreset,
         mode |-> o.mode,
         remainingTime |-> RestoredRemaining(o, s.lastUpdate),
         isRunning |-> o.isRunning,
         lastUpdate |-> RestoredRef(o, s.lastUpdate)]

\* C13: for every EngineState s the engine reaches, running or paused, in
\* either phase, restore(serialize(s), t) with t = s.lastObservedInstant
\* equals s in all five fields.
C13_RoundTrip ==
    pc = "mounted" => RoundTrip(Current) = Current

\* a page load has just restored the snapshot of a running, partly
\* elapsed break phase at the very instant the snapshot carries
C13_Witness ==
    /\ op.name = "mount"
    /\ pc = "mounted"
    /\ loaded.kind = "json"
    /\ loaded.obj = Current
    /\ loaded.obj.lastUpdate = now
    /\ isRunning
    /\ mode = "break"
    /\ remainingTime < FullDuration(mode, selectedPreset)

----------------------------------------------------------------------------
(* C14 *)

\* C14: remainingSeconds is never negative, after a restore and after a
\* tick over an arbitrarily long gap included, and a tick with a positive
\* delta while running either decreases it or fires a phase transition
\* that sets it to the next phase's full duration.
C14_MonotonicDecrease ==
    [][/\ remainingTime >= 0
       /\ remainingTime' >= 0
       /\ (LiveTick /\ ElapsedSeconds > 0)
          => \/ (mode' = mode /\ remainingTime' < remainingTime)
             \/ /\ mode' = Opposite(mode)
                /\ remainingTime' = FullDuration(Opposite(mode), selectedPreset)]_vars

\* a tick over a gap far longer than the phase has just fired the
\* transition, and remainingSeconds went up to the next phase's duration
C14_Witness ==
    /\ op.name = "tick"
    /\ signalled
    /\ SeenSeconds > pre.remainingTime + 1000
    /\ remainingTime > pre.remainingTime
    /\ remainingTime = FullDuration(mode, selectedPreset)

----------------------------------------------------------------------------
(* C16 *)

\* C16: selectedPresetIndex is a valid catalog position in every reachable
\* state, after any sequence of start, pause, reset, changePreset (with
\* any integer), tick and restore (from any stored snapshot).
C16_PresetIndexValid == selectedPreset \in PresetIndices

----------------------------------------------------------------------------
(* C20 *)

\* C20: phase changes only through a phase transition fired by a tick:
\* start, pause, reset, changePreset, a tick with deltaSeconds <= 0 or
\* newRemaining > 0 leave it unchanged, and restore yields the phase of
\* the snapshot.
C20_PhaseChangesOnlyByTransition ==
    [][/\ (op'.name \in {"start", "pause", "reset", "preset"}) => mode' = mode
       /\ (op'.name = "mount" /\ stored.kind = "json") => mode' = stored.obj.mode
       /\ (op'.name = "mount" /\ stored.kind # "json") => mode' = mode
       /\ (/\ LiveTick
           /\ \/ ElapsedSeconds <= 0
              \/ remainingTime - ElapsedSeconds > 0) => mode' = mode]_vars

\* a running break phase has just been reset and is still the break phase
C20_Witness ==
    /\ op.name = "reset"
    /\ signalCount >= 1
    /\ pre.mode = "break"
    /\ pre.isRunning
    /\ mode = "break"

----------------------------------------------------------------------------
(* C15 *)

\* C15: a tick whose deltaSeconds is <= 0, because less than a second has
\* passed since lastObservedInstant or because the clock went backwards,
\* changes nothing: remainingSeconds, phase, running, selectedPresetIndex
\* and lastObservedInstant stay as they are, the stored snapshot too, and
\* no completion signal fires.
C15_EarlyTickIsNoOp ==
    [][(LiveTick /\ ElapsedSeconds <= 0)
          => /\ engine' = engine
             /\ stored' = stored
             /\ signalCount' = signalCount
             /\ signalTag' = signalTag
             /\ signalled' = FALSE]_vars

\* a tick has just run on a running engine whose clock had been set back
\* by more than a second behind lastObservedInstant, and changed nothing
C15_Witness ==
    /\ op.name = "tick"
    /\ pc = "mounted"
    /\ isRunning
    /\ pre = Current
    /\ now - lastUpdateRef <= 0 - MsPerSec
    /\ signalled = FALSE

----------------------------------------------------------------------------
(* C19 *)

\* C19: in every state reached from the initial state by start, pause,
\* reset, changePreset with a valid index and tick alone, without a
\* restore, 0 < remainingSeconds <= duration(phase, selectedPresetIndex).
C19_RemainingWithinPhase ==
    pc = "mounted"
       => /\ 0 < remainingTime
          /\ remainingTime <= FullDuration(mode, selectedPreset)

\* a tick has just seen exactly the remaining seconds elapse, and the
\* engine is at the full duration of the next phase, not at 0
C19_Witness ==
    /\ op.name = "tick"
    /\ signalled
    /\ SeenSeconds = pre.remainingTime
    /\ pre.remainingTime > 0
    /\ mode = Opposite(pre.mode)
    /\ remainingTime = FullDuration(mode, selectedPreset)

----------------------------------------------------------------------------
(* C17 *)

\* C17: once the engine is running and nobody pauses, resets or changes
\* the preset, while ticks keep arriving and the clock keeps advancing,
\* running stays true forever, completion signals of either tag keep
\* firing, and the tags of consecutive signals alternate, beginning with
\* Focus, without a start between phases.
C17_AutoAdvance ==
    /\ [][isRunning => isRunning']_vars
    /\ [][signalled' => /\ signalTag' # signalTag
                        /\ signalTag = "none" => signalTag' = "focus"]_vars
    /\ isRunning ~> (signalled /\ signalTag = "focus")
    /\ isRunning ~> (signalled /\ signalTag = "break")

\* a break phase has just ended by a tick on a timer that was started
\* once, and the focus phase after it is running
C17_Witness ==
    /\ op.name = "tick"
    /\ signalled
    /\ signalTag = "break"
    /\ pre.mode = "break"
    /\ mode = "focus"
    /\ isRunning
    /\ remainingTime = FullDuration("focus", selectedPreset)

----------------------------------------------------------------------------
(* C18 *)

\* C18: no elapsed time is lost by intermediate ticks: while a phase runs
\* on since a start at instant s, after any sequence of ticks the total
\* decrement of remainingSeconds equals floor((t_last - s) / 1000), which
\* is what a single tick at t_last would have taken off.
C18_NoTimeLost ==
    (session.on /\ op.name = "tick" /\ pc = "mounted")
       => session.r - remainingTime = (now - session.s) \div MsPerSec

====
